---- MODULE Spec2Model ----
(***************************************************************************)
(* Model of the audio scheduling engine of nota-page and of the playback   *)
(* tracking of its App:                                                    *)
(*   src/services/audioService.ts  (getFrequency, AudioService)            *)
(*   src/App.tsx                   (togglePlay, the tracking effect, tick) *)
(*                                                                         *)
(* Units.  Times are integers in milliseconds (the code's seconds * 1000). *)
(* A note's duration is an integer in 1/1000 of a quarter note (the code's *)
(* duration * 1000), so that (duration * 60) / bpm is the note's length in *)
(* milliseconds.  The inputs are chosen so that this division is exact.    *)
(* A pitch string is a sequence of one-character strings.                  *)
(* A JavaScript number is a record [nan, v]: NaN, or the integer v.        *)
(* A frequency is in 1/1000 Hz.                                            *)
(***************************************************************************)
EXTENDS Integers, Sequences, FiniteSets, TLC

VARIABLES
    clock,          \* wall clock (Date.now / the timer clock), ms
    audioTime,      \* audioContext.currentTime, ms; runs only while "running"
    audioContext,   \* "null", "suspended" or "running"
    resumePending,  \* a resume() promise of initContext is not settled yet
    isPlaying,      \* AudioService.isPlaying
    scheduledNotes, \* AudioService.scheduledNotes: sequence of voice ids
    voices,         \* every oscillator created so far, by id
    sessions,       \* every playSequence call so far, in call order
    lastCall,       \* the last public call and the exception it raised
    pitchIn,        \* input of the pitch resolver run
    freqOut,        \* its result
    uiPlaying,      \* App: the isPlaying state
    uiBpm,          \* App: the bpm state
    uiNotes,        \* App: the notes state
    effect,         \* App: the mounted playback tracking effect (its closure)
    frame,          \* App: a requestAnimationFrame(tick) is pending
    playingNoteIndex, \* App: the playingNoteIndex state, <<>> for null
    lastTick,       \* the last run of tick: <<>> or <<[elapsed, found, again]>>
    elapsedIn,      \* input of the tick run: the elapsed time, ms
    envIn,          \* input of the envelope run
    envOut          \* its result

cursorVars == <<uiPlaying, uiBpm, uiNotes, effect, frame, playingNoteIndex,
                lastTick>>

pureVars == <<pitchIn, freqOut, elapsedIn, envIn, envOut>>

vars == <<clock, audioTime, audioContext, resumePending, isPlaying,
          scheduledNotes, voices, sessions, lastCall, cursorVars, pureVars>>

engineVars == <<clock, audioTime, audioContext, resumePending, isPlaying,
                scheduledNotes, voices, sessions, lastCall>>

----------------------------------------------------------------------------
(* Bounds of the model *)

MaxLen == 3
MaxSessions == 2
MaxTones == 1
MaxPitchLen == 3

(* Program constants *)

Lookahead == 100
ToneDuration == 500
A4Hz == 440
A4Semitone == 57

----------------------------------------------------------------------------
(* JavaScript numbers *)

Num(v) == [nan |-> FALSE, v |-> v]
NaN == [nan |-> TRUE, v |-> 0]

RangeOf(s) == {s[i] : i \in DOMAIN s}

----------------------------------------------------------------------------
(* getFrequency *)

NOTES == << <<"C">>, <<"C","#">>, <<"D">>, <<"D","#">>, <<"E">>, <<"F">>,
            <<"F","#">>, <<"G">>, <<"G","#">>, <<"A">>, <<"A","#">>, <<"B">> >>

Digits == <<"0","1","2","3","4","5","6","7","8","9">>

\* note.slice(-1): the last character, or "" for the empty string
SliceLast(note) == IF Len(note) = 0 THEN <<>> ELSE <<note[Len(note)]>>

\* note.slice(0, -1): all but the last character
SliceInit(note) == IF Len(note) = 0 THEN <<>> ELSE SubSeq(note, 1, Len(note) - 1)

\* parseInt of a string of at most one character
ParseInt(s) ==
    IF Len(s) = 1 /\ \E d \in DOMAIN Digits : Digits[d] = s[1]
    THEN Num((CHOOSE d \in DOMAIN Digits : Digits[d] = s[1]) - 1)
    ELSE NaN

\* notes.indexOf(key), 0-based, -1 when absent
IndexOf(key) ==
    IF \E i \in DOMAIN NOTES : NOTES[i] = key
    THEN (CHOOSE i \in DOMAIN NOTES : NOTES[i] = key) - 1
    ELSE -1

\* 2^(r/12) * 10^6 for r in 0..11
TwelfthRoot == <<1000000, 1059463, 1122462, 1189207, 1259921, 1334840,
                 1414214, 1498307, 1587401, 1681793, 1781797, 1887749>>

RECURSIVE Pow2(_)
Pow2(k) == IF k <= 0 THEN 1 ELSE 2 * Pow2(k - 1)

\* floor division and the matching remainder for a possibly negative n
FloorDiv(n, d) == IF n >= 0 THEN n \div d ELSE -((-n + d - 1) \div d)

\* 440 * Math.pow(2, (n - 57) / 12), in 1/1000 Hz
TemperedHzByOctave(n) ==
    LET q == FloorDiv(n - A4Semitone, 12)
    IN  IF q >= 0 THEN A4Hz * 1000 * Pow2(q)
                  ELSE (A4Hz * 1000) \div Pow2(-q)

TemperedHz(n) ==
    LET k == n - A4Semitone
        q == FloorDiv(k, 12)
        r == k - 12 * q
        m == A4Hz * TwelfthRoot[r + 1]
    IN  IF q >= 0 THEN (m \div 1000) * Pow2(q)
                  ELSE m \div (1000 * Pow2(-q))

REST1 == <<"R">>
REST4 == <<"R","E","S","T">>

getFrequency(note) ==
    IF note = REST1 \/ note = REST4 THEN Num(0)
    ELSE LET octave == ParseInt(SliceLast(note))
             key == SliceInit(note)
             semitone == IndexOf(key)
         IN  IF semitone = -1 THEN Num(0)
             ELSE IF octave.nan THEN NaN
             ELSE Num(TemperedHz(octave.v * 12 + semitone))

----------------------------------------------------------------------------
(* playNote *)

\* (note.duration * 60) / bpm
DurationSec(duration, bpm) == (duration * 60) \div bpm

\* The outcome of playNote(pitch, startTime, duration, instrument):
\*   "none"  - returned at freq <= 0, no oscillator
\*   "throw" - osc.frequency.value = NaN raises a TypeError (a non-finite
\*             value assigned to an AudioParam), before anything is pushed
\*   "voice" - the oscillator is started and pushed
PlayNoteOutcome(pitch) ==
    LET freq == getFrequency(pitch)
    IN  IF (~freq.nan) /\ freq.v <= 0 THEN "none"
        ELSE IF freq.nan THEN "throw"
        ELSE "voice"

NewVoice(session, index, pitch, startTime, duration, instrument) ==
    [session |-> session, index |-> index,
     freq |-> getFrequency(pitch).v,
     start |-> startTime, end |-> startTime + duration,
     instrument |-> instrument,
     stopped |-> FALSE]

----------------------------------------------------------------------------
(* stop *)

\* node.stop(); node.disconnect() for every node of scheduledNotes; errors
\* are caught
StopNodesOfSessions(vs, sn, playing) ==
    [id \in DOMAIN vs |->
        IF id \in RangeOf(sn) /\ vs[id].session > 0
        THEN [vs[id] EXCEPT !.stopped = TRUE] ELSE vs[id]]

StopNodes(vs, sn, playing) ==
    [id \in DOMAIN vs |->
        IF id \in RangeOf(sn) THEN [vs[id] EXCEPT !.stopped = TRUE] ELSE vs[id]]

\* this.scheduledNotes = []
ClearedNotesEarlyReturn(sn, playing) == IF playing THEN <<>> ELSE sn

NotesKept(sn, playing) == sn

ClearedNotes(sn, playing) == <<>>

\* The sessions that a stop() cancels: all that were started, have not had
\* their completion timer fire and were not cancelled before.
CancelAll(ss) ==
    [s \in DOMAIN ss |->
        IF ss[s].timer # "fired" THEN [ss[s] EXCEPT !.cancelled = TRUE] ELSE ss[s]]

----------------------------------------------------------------------------
(* playSequence *)

IsRest(pitch) == pitch = REST1 \/ pitch = REST4

\* currentTime += durationSec, for rests and sounding notes alike
NextCursorSkippingRests(cursor, durationSec, rest) ==
    IF rest THEN cursor ELSE cursor + durationSec

NextCursor(cursor, durationSec, rest) == cursor + durationSec

\* notes.forEach(...) from note i on.  st is the state of the pass:
\*   cursor  - currentTime
\*   windows - for every note whose callback ran to its end, its [start, end)
\*   created - the oscillators pushed, as [index, start, duration]
\*   threw   - playNote raised, which ends the forEach and playSequence
RECURSIVE ForEachNote(_, _, _, _, _)
ForEachNote(notes, bpm, playing, i, st) ==
    IF i > Len(notes) THEN st
    ELSE IF ~playing THEN ForEachNote(notes, bpm, playing, i + 1, st)
    ELSE
      LET durationSec == DurationSec(notes[i].duration, bpm)
          rest == IsRest(notes[i].pitch)
          outcome == IF rest THEN "none" ELSE PlayNoteOutcome(notes[i].pitch)
      IN  IF outcome = "throw" THEN [st EXCEPT !.threw = TRUE]
          ELSE ForEachNote(notes, bpm, playing, i + 1,
                 [cursor |-> NextCursor(st.cursor, durationSec, rest),
                  windows |-> Append(st.windows,
                                [start |-> st.cursor, end |-> st.cursor + durationSec]),
                  created |-> IF outcome = "voice"
                              THEN Append(st.created,
                                     [index |-> i, start |-> st.cursor,
                                      duration |-> durationSec])
                              ELSE st.created,
                  threw |-> FALSE])

\* The state of the audio context after initContext, when a new context
\* starts in state `created`
ContextAfterInit(created) == IF audioContext = "null" THEN created ELSE audioContext

\* let currentTime = this.audioContext.currentTime + lookahead
StartCursorNow(now) == now

StartCursor(now) == now + Lookahead

\* The delay of the completion timer
TimerDelay(cursor, now) == cursor - now

playSequence(notes, bpm, instrument, created) ==
    LET ctx == ContextAfterInit(created)
        resumed == ctx = "suspended"
        sid == Len(sessions) + 1
        stoppedVoices == StopNodes(voices, scheduledNotes, isPlaying)
        pass == ForEachNote(notes, bpm, TRUE, 1,
                  [cursor |-> StartCursor(audioTime), windows |-> <<>>,
                   created |-> <<>>, threw |-> FALSE])
        newVoices == [k \in 1..Len(pass.created) |->
                        NewVoice(sid, pass.created[k].index,
                                 notes[pass.created[k].index].pitch,
                                 pass.created[k].start, pass.created[k].duration,
                                 instrument)]
        session == [notes |-> notes, bpm |-> bpm, instrument |-> instrument,
                    base |-> StartCursor(audioTime),
                    windows |-> pass.windows, cursor |-> pass.cursor,
                    threw |-> pass.threw,
                    timer |-> IF pass.threw THEN "none" ELSE "armed",
                    deadline |-> IF pass.threw THEN 0
                                 ELSE clock + TimerDelay(pass.cursor, audioTime),
                    completions |-> 0, cancelled |-> FALSE,
                    outcome |-> IF pass.threw THEN "TypeError" ELSE "fulfilled",
                    resume |-> IF resumed THEN "pending" ELSE "notneeded"]
    IN  /\ Len(sessions) < MaxSessions
        /\ audioContext' = ctx
        /\ resumePending' = (resumePending \/ resumed)
        /\ isPlaying' = TRUE
        /\ voices' = stoppedVoices \o newVoices
        /\ scheduledNotes' = ClearedNotes(scheduledNotes, isPlaying)
                               \o [k \in 1..Len(newVoices) |-> Len(voices) + k]
        /\ sessions' = Append(CancelAll(sessions), session)
        /\ lastCall' = [op |-> "playSequence",
                        raised |-> IF pass.threw THEN "TypeError" ELSE "none"]
        /\ UNCHANGED <<clock, audioTime, pureVars>>

\* The completion callback of session s, run by the timer
completionTimer(s) ==
    /\ s \in DOMAIN sessions
    /\ sessions[s].timer = "armed"
    /\ clock >= sessions[s].deadline
    /\ IF isPlaying
       THEN /\ isPlaying' = FALSE
            /\ sessions' = [sessions EXCEPT ![s].timer = "fired",
                                            ![s].completions = @ + 1]
       ELSE /\ isPlaying' = isPlaying
            /\ sessions' = [sessions EXCEPT ![s].timer = "fired"]
    /\ UNCHANGED <<clock, audioTime, audioContext, resumePending, scheduledNotes,
                   voices, lastCall, pureVars>>

stop ==
    /\ isPlaying' = FALSE
    /\ voices' = StopNodes(voices, scheduledNotes, isPlaying)
    /\ scheduledNotes' = ClearedNotes(scheduledNotes, isPlaying)
    /\ sessions' = CancelAll(sessions)
    /\ lastCall' = [op |-> "stop", raised |-> "none"]
    /\ UNCHANGED <<clock, audioTime, audioContext, resumePending, pureVars>>

\* this.scheduledNotes.push(osc)
PushedAlone(sn, id) == <<id>>

Pushed(sn, id) == Append(sn, id)

Tones == {id \in DOMAIN voices : voices[id].session = 0}

playTone(pitch, instrument, created) ==
    LET ctx == ContextAfterInit(created)
        resumed == ctx = "suspended"
        outcome == PlayNoteOutcome(pitch)
    IN  /\ Cardinality(Tones) < MaxTones
        /\ audioContext' = ctx
        /\ resumePending' = (resumePending \/ resumed)
        /\ IF outcome = "voice"
           THEN /\ voices' = Append(voices,
                      NewVoice(0, 0, pitch, audioTime, ToneDuration, instrument))
                /\ scheduledNotes' = Pushed(scheduledNotes, Len(voices) + 1)
           ELSE UNCHANGED <<voices, scheduledNotes>>
        /\ lastCall' = [op |-> "playTone", pitch |-> pitch,
                        raised |-> IF outcome = "throw" THEN "TypeError" ELSE "none"]
        /\ UNCHANGED <<clock, audioTime, isPlaying, sessions, cursorVars, pureVars>>

\* scheduledNotes.splice(index, 1) when indexOf(osc) > -1
SplicedFirst(sn, id) == IF sn = <<>> THEN sn ELSE Tail(sn)

Spliced(sn, id) == SelectSeq(sn, LAMBDA x : x # id)

\* The ended event of oscillator id: at its scheduled end while it is in the
\* live set, or after stop() took it out of the live set
onended(id) ==
    /\ id \in DOMAIN voices
    /\ \/ voices[id].stopped
       \/ id \in RangeOf(scheduledNotes) /\ audioContext = "running"
                                         /\ audioTime >= voices[id].end
    /\ scheduledNotes' = Spliced(scheduledNotes, id)
    /\ UNCHANGED <<clock, audioTime, audioContext, resumePending, isPlaying,
                   voices, sessions, lastCall, cursorVars, pureVars>>

\* The resume() promise of initContext settles
SettleSessions(ss, how) ==
    [s \in DOMAIN ss |->
        IF ss[s].resume = "pending" THEN [ss[s] EXCEPT !.resume = how] ELSE ss[s]]

resumeFulfilled ==
    /\ resumePending
    /\ resumePending' = FALSE
    /\ audioContext' = "running"
    /\ sessions' = SettleSessions(sessions, "ok")
    /\ UNCHANGED <<clock, audioTime, isPlaying, scheduledNotes, voices, lastCall, cursorVars, pureVars>>

resumeRejected ==
    /\ resumePending
    /\ resumePending' = FALSE
    /\ sessions' = SettleSessions(sessions, "failed")
    /\ UNCHANGED <<clock, audioTime, audioContext, isPlaying, scheduledNotes,
                   voices, lastCall, cursorVars, pureVars>>

\* The instants at which something can happen next: a timer's deadline, the
\* scheduled end of an oscillator
Deltas ==
    {sessions[s].deadline - clock : s \in {x \in DOMAIN sessions :
                sessions[x].timer = "armed" /\ sessions[x].deadline > clock}}
      \cup {voices[id].end - audioTime : id \in {x \in DOMAIN voices :
                audioContext = "running" /\ x \in RangeOf(scheduledNotes)
                /\ voices[x].end > audioTime}}

\* Time passes by d
timePasses(d) ==
    /\ clock' = clock + d
    /\ audioTime' = IF audioContext = "running" THEN audioTime + d ELSE audioTime
    /\ UNCHANGED <<audioContext, resumePending, isPlaying, scheduledNotes, voices,
                   sessions, lastCall, cursorVars, pureVars>>

\* Time passes up to the next instant at which something can happen
nextInstant == \E d \in Deltas : timePasses(d)

----------------------------------------------------------------------------
(* Inputs *)

Note(pitch, duration) == [pitch |-> pitch, duration |-> duration]

RECURSIVE SeqsUpTo(_, _)
SeqsUpTo(S, n) ==
    IF n = 0 THEN {<<>>}
    ELSE LET shorter == SeqsUpTo(S, n - 1)
         IN  shorter \cup {Append(q, x) : q \in {y \in shorter : Len(y) = n - 1}, x \in S}

Pitches == { <<"A","4">>, REST1, REST4, <<"H","4">>, <<"C","#">> }
Durations == {500, 1000}
Bpms == {60, 120}
Instruments == {"PIANO", "GUITAR", "VIOLIN", "FLUTE", "SYNTH"}

\* The state a new AudioContext starts in (the autoplay policy decides);
\* an existing context keeps its state
Created == IF audioContext = "null" THEN {"suspended", "running"} ELSE {audioContext}
CreatedRunning == IF audioContext = "null" THEN {"running"} ELSE {audioContext}

NoteInputs == {Note(p, d) : p \in Pitches, d \in Durations}
SequenceInputs == SeqsUpTo(NoteInputs, MaxLen)

\* The calls of the engine's life cycle: a sounding note, a rest, a pitch
\* without octave
CallSequences == { <<Note(<<"A","4">>, 1000)>>, <<Note(REST1, 500)>>,
                   <<Note(<<"C","#">>, 500)>> }
CallPitches == { <<"A","4">>, REST1, <<"C","#">> }

----------------------------------------------------------------------------
(* The engine under arbitrary calls, on a context that starts running *)

\* The App before anything is played, and the inputs of the runs unused
InitIdle ==
    /\ uiPlaying = FALSE
    /\ uiBpm = 120
    /\ uiNotes = <<>>
    /\ effect = [playing |-> FALSE, bpm |-> 120, notes |-> <<>>, startTime |-> 0]
    /\ frame = FALSE
    /\ playingNoteIndex = <<>>
    /\ lastTick = <<>>

InitEngine ==
    /\ clock = 0
    /\ audioTime = 0
    /\ audioContext = "null"
    /\ resumePending = FALSE
    /\ isPlaying = FALSE
    /\ scheduledNotes = <<>>
    /\ voices = <<>>
    /\ sessions = <<>>
    /\ lastCall = [op |-> "none", raised |-> "none"]

Init ==
    /\ InitEngine
    /\ InitIdle
    /\ pitchIn = <<>>
    /\ freqOut = <<>>
    /\ elapsedIn = 0
    /\ envIn = <<>>
    /\ envOut = <<>>

PlaySequenceCall ==
    /\ \E notes \in CallSequences, created \in CreatedRunning :
          playSequence(notes, 60, "PIANO", created)
    /\ UNCHANGED cursorVars

StopCall == stop /\ UNCHANGED cursorVars

PlayToneCall ==
    \E pitch \in CallPitches, created \in CreatedRunning :
        playTone(pitch, "PIANO", created)

TimerFires == (\E s \in DOMAIN sessions : completionTimer(s)) /\ UNCHANGED cursorVars

VoiceEnds == \E id \in DOMAIN voices : onended(id)

Next ==
    \/ PlaySequenceCall
    \/ StopCall
    \/ PlayToneCall
    \/ TimerFires
    \/ VoiceEnds
    \/ nextInstant

Spec == Init /\ [][Next]_vars

----------------------------------------------------------------------------
(* One playSequence call on a fresh engine, over all inputs, on a context
   that may start suspended, and what follows the call *)

ScheduleCall ==
    /\ sessions = <<>>
    /\ \E notes \in SequenceInputs, bpm \in Bpms, instrument \in Instruments,
          created \in Created : playSequence(notes, bpm, instrument, created)
    /\ UNCHANGED cursorVars

NextSched ==
    \/ ScheduleCall
    \/ resumeFulfilled
    \/ resumeRejected
    \/ TimerFires
    \/ VoiceEnds
    \/ nextInstant

SpecSched == Init /\ [][NextSched]_vars

----------------------------------------------------------------------------
(* One run of the pitch resolver, over all short strings *)

PitchChars == {"C", "A", "#", "4", "0", "R", "H"}

RECURSIVE StringsUpTo(_, _)
StringsUpTo(S, n) ==
    IF n = 0 THEN {<<>>}
    ELSE LET shorter == StringsUpTo(S, n - 1)
         IN  shorter \cup {Append(q, x) : q \in {y \in shorter : Len(y) = n - 1}, x \in S}

KeyedPitches == {NOTES[k] \o <<Digits[d]>> : k \in DOMAIN NOTES, d \in DOMAIN Digits}

PitchInputs == StringsUpTo(PitchChars, MaxPitchLen) \cup KeyedPitches \cup {REST4}

InitPitch ==
    /\ InitEngine
    /\ InitIdle
    /\ pitchIn \in PitchInputs
    /\ freqOut = <<>>
    /\ elapsedIn = 0
    /\ envIn = <<>>
    /\ envOut = <<>>

Resolve ==
    /\ freqOut = <<>>
    /\ freqOut' = <<getFrequency(pitchIn)>>
    /\ UNCHANGED <<engineVars, cursorVars, pitchIn, elapsedIn, envIn, envOut>>

NextPitch == Resolve

SpecPitch == InitPitch /\ [][NextPitch]_vars

----------------------------------------------------------------------------
(* playNote: the gain envelope of an instrument.  Gains are in 1/100. *)

\* gain.setValueAtTime(value, time)
SetValue(value, time) == [op |-> "setValueAtTime", value |-> value, time |-> time]

\* gain.linearRampToValueAtTime(value, time)
LinearRamp(value, time) ==
    [op |-> "linearRampToValueAtTime", value |-> value, time |-> time]

\* gain.exponentialRampToValueAtTime(value, time)
ExponentialRampToZero(value, time) ==
    [op |-> "exponentialRampToValueAtTime", value |-> 0, time |-> time]

ExponentialRamp(value, time) ==
    [op |-> "exponentialRampToValueAtTime", value |-> value, time |-> time]

\* switch (instrument): the oscillator type and the automation of the gain,
\* in the order of the calls
Envelope(instrument, startTime, duration) ==
    CASE instrument = "PIANO" ->
           [type |-> "sine",
            gain |-> << SetValue(0, startTime),
                        LinearRamp(80, startTime + 20),
                        ExponentialRamp(1, startTime + duration) >>]
      [] instrument = "VIOLIN" ->
           [type |-> "sawtooth",
            gain |-> << SetValue(0, startTime),
                        LinearRamp(50, startTime + 200),
                        SetValue(50, startTime + duration - 100),
                        LinearRamp(0, startTime + duration) >>]
      [] instrument = "FLUTE" ->
           [type |-> "triangle",
            gain |-> << SetValue(0, startTime),
                        LinearRamp(60, startTime + 50),
                        LinearRamp(0, startTime + duration) >>]
      [] instrument = "GUITAR" ->
           [type |-> "triangle",
            gain |-> << SetValue(0, startTime),
                        LinearRamp(70, startTime + 10),
                        ExponentialRamp(1, startTime + duration) >>]
      [] instrument = "SYNTH" ->
           [type |-> "square",
            gain |-> << SetValue(0, startTime),
                        LinearRamp(30, startTime + 50),
                        LinearRamp(30, startTime + duration - 50),
                        LinearRamp(0, startTime + duration) >>]
      [] OTHER ->
           [type |-> "sine",
            gain |-> << SetValue(50, startTime),
                        LinearRamp(0, startTime + duration) >>]

----------------------------------------------------------------------------
(* One envelope, over the instruments and the lengths a note can have *)

\* NOTE_DURATIONS, in 1/1000 of a quarter note
NoteDurations == {4000, 2000, 1000, 500, 250}
EnvBpms == {40, 60, 120, 200}
EnvDurations == {DurationSec(d, b) : d \in NoteDurations, b \in EnvBpms}
                  \cup {ToneDuration}
EnvStarts == {0, Lookahead, Lookahead + 1000}
EnvInstruments == Instruments \cup {"UNKNOWN"}

InitEnv ==
    /\ InitEngine
    /\ InitIdle
    /\ pitchIn = <<>>
    /\ freqOut = <<>>
    /\ elapsedIn = 0
    /\ envIn \in [instrument : EnvInstruments, startTime : EnvStarts,
                  duration : EnvDurations]
    /\ envOut = <<>>

Shape ==
    /\ envOut = <<>>
    /\ envOut' = <<Envelope(envIn.instrument, envIn.startTime, envIn.duration)>>
    /\ UNCHANGED <<engineVars, cursorVars, pitchIn, freqOut, elapsedIn, envIn>>

NextEnv == Shape

SpecEnv == InitEnv /\ [][NextEnv]_vars

----------------------------------------------------------------------------
(* The playback tracking of the App (src/App.tsx): the tick of the cursor *)

MaxTickLen == 2
MaxElapsed == 30

GraceSec == 1000

\* const secPerBeat = 60 / bpm, in ms
secPerBeat(bpm) == 60000 \div bpm

\* const noteDurationSec = notes[i].duration * secPerBeat, in ms
noteDurationSec(duration, bpm) == (duration * secPerBeat(bpm)) \div 1000

\* elapsed >= currentTimeCursor && elapsed < currentTimeCursor + noteDurationSec
InWindowClosedRight(elapsed, currentTimeCursor, durationSec) ==
    elapsed > currentTimeCursor /\ elapsed <= currentTimeCursor + durationSec

InWindow(elapsed, currentTimeCursor, durationSec) ==
    elapsed >= currentTimeCursor /\ elapsed < currentTimeCursor + durationSec

\* The for loop of tick from note i on (i counts from 1, foundIndex from 0):
\* it leaves with foundIndex and with currentTimeCursor, which after a break
\* is the start of the note found and otherwise the sum of all the lengths
RECURSIVE TickWalk(_, _, _, _, _)
TickWalk(notes, bpm, elapsed, i, currentTimeCursor) ==
    IF i > Len(notes)
    THEN [foundIndex |-> -1, currentTimeCursor |-> currentTimeCursor]
    ELSE LET d == noteDurationSec(notes[i].duration, bpm)
         IN  IF InWindow(elapsed, currentTimeCursor, d)
             THEN [foundIndex |-> i - 1, currentTimeCursor |-> currentTimeCursor]
             ELSE TickWalk(notes, bpm, elapsed, i + 1, currentTimeCursor + d)

\* if (elapsed < currentTimeCursor + 1) requestAnimationFrame(tick)
KeepsTicking(elapsed, currentTimeCursor) == elapsed < currentTimeCursor + GraceSec

\* One run of tick: the index it reports and whether it requests the next
TickResult(notes, bpm, elapsed) ==
    LET w == TickWalk(notes, bpm, elapsed, 1, 0)
    IN  [elapsed |-> elapsed, found |-> w.foundIndex,
         again |-> KeepsTicking(elapsed, w.currentTimeCursor)]

----------------------------------------------------------------------------
(* One run of tick, over short sequences and the instants around their
   boundaries *)

TickDurations == {500, 1000, 2000}
TickNotes == {Note(p, d) : p \in { <<"A","4">>, REST1 }, d \in TickDurations}
TickSequences == SeqsUpTo(TickNotes, MaxTickLen)
ElapsedInputs == {k * 250 + e : k \in (-1)..MaxElapsed, e \in {-1, 0, 1}}

InitTick ==
    /\ InitEngine
    /\ uiPlaying = TRUE
    /\ uiNotes \in TickSequences
    /\ uiBpm \in Bpms
    /\ effect = [playing |-> TRUE, bpm |-> uiBpm, notes |-> uiNotes,
                 startTime |-> Lookahead]
    /\ frame = TRUE
    /\ playingNoteIndex = <<>>
    /\ lastTick = <<>>
    /\ elapsedIn \in ElapsedInputs
    /\ pitchIn = <<>>
    /\ freqOut = <<>>
    /\ envIn = <<>>
    /\ envOut = <<>>

\* tick runs with (Date.now() - startTime) = elapsedIn
TickRun ==
    /\ frame
    /\ lastTick = <<>>
    /\ LET r == TickResult(effect.notes, effect.bpm, elapsedIn)
       IN  /\ lastTick' = <<r>>
           /\ playingNoteIndex' = <<r.found>>
           /\ frame' = r.again
    /\ UNCHANGED <<engineVars, uiPlaying, uiBpm, uiNotes, effect,
                   pureVars>>

NextTick == TickRun

SpecTick == InitTick /\ [][NextTick]_vars

----------------------------------------------------------------------------
(* The App (src/App.tsx): the transport and the playback tracking effect *)

MaxAppClock == 6

\* The cleanup of the effect: cancelAnimationFrame(animationFrameId), where
\* animationFrameId is the request made last
CleanupFrameKept(pending) == pending

CleanupFrame(pending) == FALSE

\* const startTime = Date.now() + 100
AnchorDelay == 100

Anchor(now) == now + AnchorDelay

\* setNotes(generatedNotes) of handleFileUpload
handleFileUpload(generatedNotes) ==
    /\ uiNotes = <<>>
    /\ uiNotes' = generatedNotes
    /\ UNCHANGED <<engineVars, uiPlaying, uiBpm, effect, frame,
                   playingNoteIndex, lastTick, pureVars>>

\* onChange of the tempo slider
setBpm(value) ==
    /\ value # uiBpm
    /\ uiBpm' = value
    /\ UNCHANGED <<engineVars, uiPlaying, uiNotes, effect, frame,
                   playingNoteIndex, lastTick, pureVars>>

\* handleNoteChange(id, 'duration', value): setNotes(prev => prev.map(...))
handleNoteChange(i, value) ==
    /\ i \in DOMAIN uiNotes
    /\ uiNotes[i].duration # value
    /\ uiNotes' = [uiNotes EXCEPT ![i].duration = value]
    /\ UNCHANGED <<engineVars, uiPlaying, uiBpm, effect, frame,
                   playingNoteIndex, lastTick, pureVars>>

\* togglePlay, with the instrument left at its initial value
togglePlay ==
    /\ IF uiPlaying
       THEN stop /\ uiPlaying' = FALSE
       ELSE IF Len(uiNotes) = 0
            THEN UNCHANGED <<engineVars, uiPlaying, pureVars>>
            ELSE /\ uiPlaying' = TRUE
                 /\ \E created \in CreatedRunning :
                        playSequence(uiNotes, uiBpm, "PIANO", created)
    /\ UNCHANGED <<uiBpm, uiNotes, effect, frame, playingNoteIndex, lastTick>>

\* The completion timer of session s, whose callback is setIsPlaying(false)
onComplete(s) ==
    /\ completionTimer(s)
    /\ uiPlaying' = IF isPlaying THEN FALSE ELSE uiPlaying
    /\ UNCHANGED <<uiBpm, uiNotes, effect, frame, playingNoteIndex, lastTick>>

\* The playback tracking effect runs after a render in which isPlaying, bpm
\* or notes changed: first the cleanup of its previous run, then its body
useEffect ==
    /\ <<effect.playing, effect.bpm, effect.notes>> # <<uiPlaying, uiBpm, uiNotes>>
    /\ LET cleaned == IF effect.playing THEN CleanupFrame(frame) ELSE frame
       IN  IF ~uiPlaying
           THEN /\ playingNoteIndex' = <<>>
                /\ frame' = cleaned
                /\ effect' = [playing |-> FALSE, bpm |-> uiBpm, notes |-> uiNotes,
                              startTime |-> 0]
           ELSE /\ playingNoteIndex' = playingNoteIndex
                /\ frame' = TRUE
                /\ effect' = [playing |-> TRUE, bpm |-> uiBpm, notes |-> uiNotes,
                              startTime |-> Anchor(clock)]
    /\ UNCHANGED <<engineVars, uiPlaying, uiBpm, uiNotes, lastTick, pureVars>>

\* The animation frame callback
tick ==
    /\ frame
    /\ LET r == TickResult(effect.notes, effect.bpm, clock - effect.startTime)
       IN  /\ lastTick' = <<r>>
           /\ playingNoteIndex' = <<r.found>>
           /\ frame' = r.again
    /\ UNCHANGED <<engineVars, uiPlaying, uiBpm, uiNotes, effect, pureVars>>

\* Half a second passes, once the effect of the last render, the frame
\* callback and the timers due at this instant have run
appWait ==
    /\ clock < MaxAppClock * 500
    /\ <<effect.playing, effect.bpm, effect.notes>> = <<uiPlaying, uiBpm, uiNotes>>
    /\ frame => lastTick = <<TickResult(effect.notes, effect.bpm,
                                         clock - effect.startTime)>>
    /\ \A s \in DOMAIN sessions :
          sessions[s].timer = "armed" => clock < sessions[s].deadline
    /\ clock' = clock + 500
    /\ audioTime' = IF audioContext = "running" THEN audioTime + 500 ELSE audioTime
    /\ UNCHANGED <<audioContext, resumePending, isPlaying, scheduledNotes, voices,
                   sessions, lastCall, cursorVars, pureVars>>

AppSequences == { <<Note(<<"A","4">>, 2000), Note(REST1, 500)>>,
                  <<Note(<<"A","4">>, 500), Note(<<"C","#">>, 500)>> }

Upload == \E generatedNotes \in AppSequences : handleFileUpload(generatedNotes)

TempoChange == \E value \in Bpms : setBpm(value)

\* An edit of the first note's length while the last session of a run is
\* active
NoteEdit ==
    /\ uiPlaying
    /\ Len(sessions) = MaxSessions
    /\ handleNoteChange(1, 1000)

Completion == \E s \in DOMAIN sessions : onComplete(s)

NextApp ==
    \/ Upload
    \/ TempoChange
    \/ NoteEdit
    \/ togglePlay
    \/ Completion
    \/ useEffect
    \/ tick
    \/ appWait

SpecApp == Init /\ [][NextApp]_vars

----------------------------------------------------------------------------
(* Vocabulary of the properties *)

Live == RangeOf(scheduledNotes)

VoicesOf(s) == {id \in DOMAIN voices : voices[id].session = s}

\* The pitch resolves to a frequency > 0
Sounding(pitch) ==
    ~IsRest(pitch) /\ ~getFrequency(pitch).nan /\ getFrequency(pitch).v > 0

\* Neither a rest nor a pitch that resolves to a frequency > 0
Unresolvable(pitch) == ~IsRest(pitch) /\ ~Sounding(pitch)

\* One of the 12 key names followed by one octave digit
ValidPitch(pitch) ==
    \E k \in DOMAIN NOTES, d \in DOMAIN Digits : pitch = NOTES[k] \o <<Digits[d]>>

\* The sum of the lengths, in ms, of the notes before note i
RECURSIVE OffsetOf(_, _, _)
OffsetOf(notes, bpm, i) ==
    IF i <= 1 THEN 0
    ELSE OffsetOf(notes, bpm, i - 1) + DurationSec(notes[i - 1].duration, bpm)

RECURSIVE TotalUnits(_)
TotalUnits(notes) ==
    IF notes = <<>> THEN 0 ELSE notes[1].duration + TotalUnits(Tail(notes))

----------------------------------------------------------------------------
(* Properties of the life cycle (Spec) *)

\* C1: the completion timer of a session that was cancelled (by stop() or by
\* a later playSequence) is a no-op when it fires: it does not change the
\* active flag and does not invoke that session's onComplete.
C1_CancelledTimerIsNoOp ==
    [][\A s \in DOMAIN sessions :
          (sessions[s].cancelled /\ sessions[s].timer = "armed"
             /\ sessions'[s].timer = "fired")
          => (isPlaying' = isPlaying
              /\ sessions'[s].completions = sessions[s].completions)]_vars

\* C2: a session that was never cancelled has had its own onComplete invoked
\* exactly once by the time its completion timer has fired.
C2_UncancelledSessionCompletes ==
    \A s \in DOMAIN sessions :
        (sessions[s].timer = "fired" /\ ~sessions[s].cancelled)
        => sessions[s].completions = 1

\* C3: the live set holds sequence voices of the latest session only; every
\* voice of an earlier session was stopped, or had ended, and is out of the
\* live set.
C3_OneSessionAtATime ==
    \A id \in DOMAIN voices :
        voices[id].session \notin {0, Len(sessions)}
        => /\ id \notin Live
           /\ voices[id].stopped \/ audioTime >= voices[id].end

C3_Witness ==
    /\ Len(sessions) >= 2
    /\ \E a \in VoicesOf(1) : voices[a].stopped /\ audioTime < voices[a].end
    /\ \E b \in VoicesOf(2) : b \in Live

\* C4: after stop() the live set is empty and the active flag is false, stop
\* raised nothing, and a stop() made now changes nothing.
C4_StopIdempotent ==
    lastCall.op = "stop"
    => /\ lastCall.raised = "none"
       /\ scheduledNotes = <<>>
       /\ ~isPlaying
       /\ StopNodes(voices, scheduledNotes, isPlaying) = voices
       /\ ClearedNotes(scheduledNotes, isPlaying) = scheduledNotes
       /\ CancelAll(sessions) = sessions

\* stop() with no active session, on an oscillator that had already ended
C4_Witness ==
    /\ lastCall.op = "stop"
    /\ \E id \in DOMAIN voices :
          /\ voices[id].stopped
          /\ audioTime >= voices[id].end
          /\ voices[id].session # 0
          /\ sessions[voices[id].session].timer = "fired"

\* C14: a playTone call leaves the engine's active flag, the completion
\* timers and every voice that was in the live set as they were, and adds
\* at most one voice to the live set: none when the pitch is a rest or does
\* not resolve to a frequency > 0.
C14_PreviewIsolated ==
    [][ (/\ lastCall'.op = "playTone"
         /\ lastCall' # lastCall \/ Len(voices') > Len(voices))
        => /\ isPlaying' = isPlaying
           /\ sessions' = sessions
           /\ \A id \in DOMAIN voices :
                /\ voices'[id] = voices[id]
                /\ id \in RangeOf(scheduledNotes) <=> id \in RangeOf(scheduledNotes')
           /\ Len(voices') <= Len(voices) + 1
           /\ RangeOf(scheduledNotes') \ RangeOf(scheduledNotes)
                = {id \in DOMAIN voices' : id > Len(voices)}
           /\ Len(scheduledNotes') = Cardinality(RangeOf(scheduledNotes'))
           /\ ~Sounding(lastCall'.pitch) => Len(voices') = Len(voices)
           /\ Sounding(lastCall'.pitch) => Len(voices') = Len(voices) + 1 ]_vars

\* a preview tone sounds next to the voice of a running session whose timer
\* is armed
C14_Witness ==
    /\ lastCall.op = "playTone"
    /\ isPlaying
    /\ \E id \in Live : voices[id].session = 0
    /\ \E id \in Live : voices[id].session > 0
    /\ \E s \in DOMAIN sessions : sessions[s].timer = "armed"

\* C16: a voice leaves the live set on exactly one of two paths: its own
\* ended event at or after its scheduled end, which removes that voice only
\* and keeps the others in their order, or a stop, which stops and removes
\* every voice of the live set.  No stopped voice is in the live set, and a
\* voice that has left it is never in it again, so that the set is empty
\* once every voice created has ended or been stopped.
C16_VoiceLeavesOnce ==
    [][ /\ \A id \in RangeOf(scheduledNotes') : ~voices'[id].stopped
        /\ Len(scheduledNotes') = Cardinality(RangeOf(scheduledNotes'))
        /\ \A id \in DOMAIN voices :
             id \notin RangeOf(scheduledNotes) => id \notin RangeOf(scheduledNotes')
        /\ \A id \in RangeOf(scheduledNotes) \ RangeOf(scheduledNotes') :
             \/ /\ voices'[id].stopped
                /\ \A other \in RangeOf(scheduledNotes) :
                     /\ voices'[other].stopped
                     /\ other \notin RangeOf(scheduledNotes')
             \/ /\ ~voices'[id].stopped
                /\ audioTime >= voices[id].end
                /\ scheduledNotes' = SelectSeq(scheduledNotes, LAMBDA x : x # id)
                /\ voices' = voices ]_vars

\* the live set is empty after one voice left it by its ended event and
\* another by a stop
C16_Witness ==
    /\ scheduledNotes = <<>>
    /\ \E id \in DOMAIN voices : voices[id].stopped
    /\ \E id \in DOMAIN voices : ~voices[id].stopped /\ audioTime >= voices[id].end

\* C24: whenever the engine's active flag is false, no voice created by
\* playSequence is in the live set with an end time still in the future.
C24_InactiveMeansSilent ==
    ~isPlaying =>
        \A id \in Live : voices[id].session > 0 => audioTime >= voices[id].end

\* C26: a preview tone is held in the live set like a sequence voice: a stop
\* or a playSequence call made while it sounds stops it and removes it from
\* the live set, and it leaves the live set unstopped only at or after its
\* natural end, 0.5 s after its start.
C26_PreviewStoppedWithTheRest ==
    [][ \A id \in RangeOf(scheduledNotes) :
          voices[id].session = 0 =>
            /\ voices[id].end = voices[id].start + ToneDuration
            /\ ((lastCall'.op = "stop" /\ lastCall' # lastCall)
                  \/ Len(sessions') > Len(sessions))
                 => /\ id \notin RangeOf(scheduledNotes')
                    /\ voices'[id].stopped
            /\ (id \notin RangeOf(scheduledNotes') /\ ~voices'[id].stopped)
                 => /\ audioTime >= voices[id].end
                    /\ lastCall' = lastCall
                    /\ sessions' = sessions ]_vars

\* a preview tone was cut by a stop or a playSequence call before its end
C26_Witness ==
    \E id \in DOMAIN voices :
        /\ voices[id].session = 0
        /\ voices[id].stopped
        /\ audioTime < voices[id].end
        /\ id \notin Live

----------------------------------------------------------------------------
(* Properties of one playSequence call (SpecSched) *)

\* C5: in a sequence with an unresolvable pitch, playSequence raises nothing
\* and arms the completion timer, creates no voice for the unresolvable
\* notes and the rests, and creates the voice of every other note at the
\* start time base + (sum of the earlier notes' lengths).
C5_UnresolvableSkipped ==
    \A s \in DOMAIN sessions :
        LET ss == sessions[s]
        IN  (\E i \in DOMAIN ss.notes : Unresolvable(ss.notes[i].pitch))
            => /\ ss.outcome = "fulfilled"
               /\ ss.timer # "none"
               /\ \A i \in DOMAIN ss.notes :
                     IF Sounding(ss.notes[i].pitch)
                     THEN \E id \in VoicesOf(s) :
                            /\ voices[id].index = i
                            /\ voices[id].start
                                 = ss.base + OffsetOf(ss.notes, ss.bpm, i)
                     ELSE \A id \in VoicesOf(s) : voices[id].index # i

\* C6: every note i of a sequence is given the window
\* [start_i, start_i + duration_i*60/bpm) with start_1 = base and
\* start_(i+1) the end of window i, and the windows add up to
\* totalQuarterDurationUnits*60/bpm.
C6_TimingPartition ==
    \A s \in DOMAIN sessions :
        LET ss == sessions[s]
        IN  /\ Len(ss.windows) = Len(ss.notes)
            /\ \A i \in DOMAIN ss.windows :
                  /\ ss.windows[i].start = ss.base + OffsetOf(ss.notes, ss.bpm, i)
                  /\ ss.windows[i].end
                       = ss.windows[i].start
                           + DurationSec(ss.notes[i].duration, ss.bpm)
                  /\ i > 1 => ss.windows[i].start = ss.windows[i - 1].end
            /\ ss.cursor - ss.base = DurationSec(TotalUnits(ss.notes), ss.bpm)

C9_EmptySequenceDeclined ==
    [][/\ (Len(sessions') > Len(sessions) /\ sessions'[Len(sessions')].notes = <<>>)
          => /\ isPlaying' = isPlaying
             /\ scheduledNotes' = scheduledNotes
             /\ sessions'[Len(sessions')].timer = "none"
             /\ \A s \in DOMAIN sessions :
                   sessions'[s].cancelled = sessions[s].cancelled
       /\ \A s \in DOMAIN sessions :
             sessions[s].notes = <<>> => sessions'[s].completions = 0]_vars

\* C10: when the resume() that a playSequence call attempted fails, that
\* call has created no voice, has not set the active flag, has armed no
\* timer, and has reported the failure to its caller.
C10_FailedResumeDeclined ==
    \A s \in DOMAIN sessions :
        sessions[s].resume = "failed"
        => /\ VoicesOf(s) = {}
           /\ ~isPlaying
           /\ sessions[s].timer = "none"
           /\ sessions[s].outcome = "ResumeError"

\* C17: when playSequence returns, the live set holds exactly one voice for
\* every note of the sequence whose pitch resolves to a frequency > 0 and no
\* other voice, each starting at now + lookahead + (sum of the earlier notes'
\* lengths) and lasting its own note's length.
C17_OnePassRegistersAll ==
    [][ Len(sessions') = Len(sessions) + 1 =>
          LET s == Len(sessions')
              ss == sessions'[s]
              live == RangeOf(scheduledNotes')
          IN  /\ \A id \in live : voices'[id].session = s
              /\ \A i \in DOMAIN ss.notes :
                    Cardinality({id \in live : voices'[id].index = i})
                      = IF Sounding(ss.notes[i].pitch) THEN 1 ELSE 0
              /\ \A id \in live :
                    /\ voices'[id].start
                         = audioTime + Lookahead
                             + OffsetOf(ss.notes, ss.bpm, voices'[id].index)
                    /\ voices'[id].end - voices'[id].start
                         = DurationSec(ss.notes[voices'[id].index].duration, ss.bpm)
      ]_vars

\* C18: every playSequence call arms exactly one completion timer, with the
\* delay lookahead + (total length of the sequence), so that the onComplete
\* of a session is never invoked before the end, on the audio clock, of the
\* scheduled window of its last note.
C18_TimerAfterLastWindow ==
    [][ /\ Len(sessions') = Len(sessions) + 1 =>
             LET ss == sessions'[Len(sessions')]
             IN  /\ ss.timer = "armed"
                 /\ ss.deadline - clock
                      = Lookahead + DurationSec(TotalUnits(ss.notes), ss.bpm)
        /\ \A s \in DOMAIN sessions' :
             sessions'[s].completions > 0 =>
                 /\ sessions'[s].completions = 1
                 /\ audioTime' >= sessions'[s].base
                      + DurationSec(TotalUnits(sessions'[s].notes), sessions'[s].bpm)
      ]_vars

\* C19: no voice of a sequence is scheduled in the past: the first note of a
\* pass starts at the audio clock's current time + the lookahead of 100 ms,
\* and every later note and every voice starts at or after that.
C19_NothingInThePast ==
    [][ Len(sessions') = Len(sessions) + 1 =>
          LET s == Len(sessions')
              ss == sessions'[s]
          IN  /\ Lookahead > 0
              /\ ss.windows # <<>> => ss.windows[1].start = audioTime + Lookahead
              /\ \A i \in DOMAIN ss.windows :
                    ss.windows[i].start >= audioTime + Lookahead
              /\ \A id \in DOMAIN voices' :
                    voices'[id].session = s =>
                        /\ voices'[id].start >= audioTime + Lookahead
                        /\ voices'[id].start > audioTime
                        /\ voices'[id].start = ss.windows[voices'[id].index].start
      ]_vars

\* a pass has just scheduled two voices, the first at now + lookahead and
\* the second later
C19_Witness ==
    /\ lastCall.op = "playSequence"
    /\ Len(sessions) = 1
    /\ \E a, b \in VoicesOf(1) :
          /\ voices[a].start = audioTime + Lookahead
          /\ voices[b].start > voices[a].start

----------------------------------------------------------------------------
(* Property of the pitch resolver (SpecPitch) *)

\* C8: the resolver returns a number, and returns 0 for every string that
\* is not a key name followed by one octave digit.
C8_ResolverFailSoft ==
    freqOut # <<>>
    => /\ ~freqOut[1].nan
       /\ ~ValidPitch(pitchIn) => freqOut[1].v = 0

\* The absolute semitone index of a valid pitch: octave * 12 + the place of
\* its key in C, C#, D, ... B counted from 0
SemitoneIndex(pitch) ==
    LET k == CHOOSE k \in DOMAIN NOTES :
                 \E d \in DOMAIN Digits : pitch = NOTES[k] \o <<Digits[d]>>
        d == CHOOSE d \in DOMAIN Digits : pitch = NOTES[k] \o <<Digits[d]>>
    IN  (d - 1) * 12 + (k - 1)

\* C23: for a valid pitch the resolver returns 440 * 2^((n - 57) / 12) for
\* n = octave * 12 + key offset: a value > 0 that is exactly 440 Hz for A4,
\* the only pitch with n = 57, and that strictly increases with n.
C23_TemperedScale ==
    (freqOut # <<>> /\ ValidPitch(pitchIn))
    => LET n == SemitoneIndex(pitchIn)
       IN  /\ ~freqOut[1].nan
           /\ freqOut[1].v > 0
           /\ n = 57 <=> pitchIn = <<"A", "4">>
           /\ n = 57 <=> freqOut[1].v = 440 * 1000
           /\ \A other \in KeyedPitches :
                 SemitoneIndex(other) < n
                   => /\ ~getFrequency(other).nan
                      /\ getFrequency(other).v < freqOut[1].v

\* A4 was resolved to 440 Hz
C23_Witness ==
    /\ freqOut = <<Num(440 * 1000)>>
    /\ pitchIn = <<"A", "4">>

----------------------------------------------------------------------------
(* Properties of one run of tick (SpecTick) *)

TotalSec(notes, bpm) == OffsetOf(notes, bpm, Len(notes) + 1)

\* C11: a tick reports index i exactly when the sum of the lengths of the
\* notes before note i <= elapsed < that sum + the length of note i, so a
\* boundary instant belongs to the later note; it reports none when elapsed
\* is negative or at or past the total length.
C11_TickReportsWindow ==
    lastTick # <<>> =>
        LET r == lastTick[1]
            notes == effect.notes
            bpm == effect.bpm
        IN  /\ \A i \in 1..Len(notes) :
                 (r.found = i - 1) <=>
                     /\ OffsetOf(notes, bpm, i) <= r.elapsed
                     /\ r.elapsed < OffsetOf(notes, bpm, i)
                                      + DurationSec(notes[i].duration, bpm)
            /\ (r.elapsed < 0 \/ r.elapsed >= TotalSec(notes, bpm)) => r.found = -1
            /\ r.found = -1 \/ r.found \in 0..(Len(notes) - 1)

\* a tick at the boundary between two notes reported the later one
C11_Witness ==
    /\ lastTick # <<>>
    /\ Len(effect.notes) = 2
    /\ lastTick[1].elapsed = OffsetOf(effect.notes, effect.bpm, 2)
    /\ lastTick[1].found = 1

\* C12: a tick requests the next tick exactly while elapsed < the total
\* length of the sequence + 1 s, also when a note is longer than one second.
C12_TicksThroughGrace ==
    lastTick # <<>> =>
        (lastTick[1].again <=>
            lastTick[1].elapsed < TotalSec(effect.notes, effect.bpm) + GraceSec)

----------------------------------------------------------------------------
(* Properties of the App (SpecApp) *)

\* The start of note i's window on the cursor's timeline: currentTimeCursor
\* when the loop of tick reaches note i
CursorStart(notes, bpm, i) ==
    TickWalk(SubSeq(notes, 1, i - 1), bpm, -1, 1, 0).currentTimeCursor

\* C13: once the tracking effect has run for a stopped or completed session
\* the cursor reports none and no tick is pending, and this stays so (no
\* tick reports an index) until the effect runs for the next activation.
C13_DeactivationClearsCursor ==
    ~effect.playing => playingNoteIndex = <<>> /\ ~frame

\* the effect ran for a deactivation after a tick that had reported an index
\* and requested the next frame
C13_Witness ==
    /\ ~effect.playing
    /\ lastTick # <<>>
    /\ lastTick[1].found >= 0
    /\ lastTick[1].again
    /\ playingNoteIndex = <<>>

\* C20: for the sequence and tempo of one activation the cursor and the
\* engine derive the same timeline: the cursor's anchor is 100 ms after the
\* effect's run as the engine's first start is 100 ms after the call, and for
\* every note i the cursor's window, counted from the anchor, is the
\* engine's scheduled window of note i, counted from the first note's start.
C20_CursorMatchesEngine ==
    (/\ effect.playing
     /\ sessions # <<>>
     /\ effect.notes = sessions[Len(sessions)].notes
     /\ effect.bpm = sessions[Len(sessions)].bpm)
    => LET ss == sessions[Len(sessions)]
           notes == effect.notes
           bpm == effect.bpm
       IN  /\ AnchorDelay = Lookahead
           /\ \A i \in DOMAIN notes :
                /\ i \in DOMAIN ss.windows
                /\ ss.windows[i].start - ss.base = CursorStart(notes, bpm, i)
                /\ ss.windows[i].end - ss.base
                     = CursorStart(notes, bpm, i)
                         + noteDurationSec(notes[i].duration, bpm)

\* C21: while one session stays active the tracking effect keeps the
\* sequence, the tempo and the anchor it recorded at activation: no new run
\* of the effect during the session (after a tempo change or a note edit)
\* records a new anchor or gives the cursor another timeline than the one
\* the engine scheduled with.
C21_AnchorRecordedOnce ==
    [][ (/\ effect.playing /\ effect'.playing
         /\ uiPlaying /\ uiPlaying'
         /\ sessions # <<>> /\ sessions' = sessions
         /\ effect' # effect)
        => /\ effect'.startTime = effect.startTime
           /\ effect'.notes = sessions[Len(sessions)].notes
           /\ effect'.bpm = sessions[Len(sessions)].bpm ]_vars

\* C22: whenever the tracker of an active session has stopped requesting
\* ticks on its own, the value it reported last is none (foundIndex -1),
\* not the index of a note.
C22_StopsOnNone ==
    (effect.playing /\ ~frame) => playingNoteIndex = <<-1>>

----------------------------------------------------------------------------
(* Properties of one envelope (SpecEnv) *)

\* C15: every exponential ramp of an envelope targets a gain > 0 (0.01);
\* a target of 0 is only ever given to a linear ramp.
C15_ExponentialTargetsPositive ==
    envOut # <<>> =>
        \A k \in DOMAIN envOut[1].gain :
            LET e == envOut[1].gain[k]
            IN  /\ e.op = "exponentialRampToValueAtTime" => e.value = 1
                /\ (e.value = 0 /\ e.op # "setValueAtTime")
                      => e.op = "linearRampToValueAtTime"

\* an envelope with an exponential decay was built
C15_Witness ==
    /\ envOut # <<>>
    /\ envIn.instrument = "GUITAR"
    /\ \E k \in DOMAIN envOut[1].gain :
          envOut[1].gain[k].op = "exponentialRampToValueAtTime"

\* C25: for every instrument and every positive note length the time
\* anchors of the envelope are non-decreasing in the order in which they are
\* scheduled and all lie within [startTime, startTime + duration].
C25_AnchorsOrdered ==
    envOut # <<>> =>
        LET gain == envOut[1].gain
        IN  /\ \A k \in DOMAIN gain :
                 /\ envIn.startTime <= gain[k].time
                 /\ gain[k].time <= envIn.startTime + envIn.duration
            /\ \A k \in 2..Len(gain) : gain[k - 1].time <= gain[k].time

====
